---- MODULE Spec2Model ----
(***************************************************************************)
(* A model of smart_cv_app/app.py: the generate_docx pipeline              *)
(* (ensure_schema, filtering, anonymize_data, build_cv_document, save,     *)
(* send_file) and the in-memory job store (parse_cv, _process_cv_job,      *)
(* job_status).                                                            *)
(*                                                                         *)
(* JSON / Python values are tagged records [t, v]:                         *)
(*   None  [t |-> "null"]     str   [t |-> "str",  v |-> sequence of       *)
(*   symbols]   list [t |-> "list", v |-> sequence of values]              *)
(*   dict  [t |-> "dict", v |-> function from keys to values]              *)
(*   int   [t |-> "num",  v |-> integer]                                   *)
(* A symbol is one character, or an opaque whitespace-free fragment for    *)
(* texts whose characters the program never inspects.                      *)
(***************************************************************************)
EXTENDS Integers, Sequences, FiniteSets, TLC

VARIABLES
    environ,    \* the process environment read at import time (os.getenv)
    world,      \* the outside: the logo file and the completion endpoint
    req,        \* per request thread of generate_docx: position and locals
    outfile,    \* content of OUTPUT_FOLDER/generated_cv.docx on disk
    jobs,       \* the module-level dict `jobs`
    worker,     \* per job id: position of its _process_cv_job thread
    poll,       \* per poller: position and locals of a job_status request
    nextJob,    \* number of job ids handed out so far by uuid4
    delivered,  \* per job id: how many polls were answered with its outcome
    session,    \* per client: the signed session cookie flask keeps for it
    served      \* the last request answered and the response it got

envVars == <<environ, world>>
renderVars == <<req, outfile>>
jobVars == <<jobs, worker, poll, nextJob, delivered>>
authVars == <<session, served>>
vars ==
    <<environ, world, req, outfile, jobs, worker, poll, nextJob, delivered,
      session, served>>

----------------------------------------------------------------------------
(* Python values *)

None == [t |-> "null", v |-> <<>>]
Str(s) == [t |-> "str", v |-> s]
List(l) == [t |-> "list", v |-> l]
Dict(d) == [t |-> "dict", v |-> d]
\* a number holds its decimal digits
Num(n) == [t |-> "num", v |-> <<ToString(n)>>]

EmptyDict == [k \in {} |-> None]
EmptyStr == Str(<<>>)

\* bool(v)
Truthy(v) ==
    CASE v.t = "null" -> FALSE
      [] v.t = "str" -> v.v # <<>>
      [] v.t = "list" -> v.v # <<>>
      [] v.t = "dict" -> DOMAIN v.v # {}
      [] v.t = "num" -> v.v # <<"0">>

\* d.get(k, default) on the mapping d
Get(d, k, default) == IF k \in DOMAIN d THEN d[k] ELSE default

\* d[k] = v
Put(d, k, v) == [x \in DOMAIN d \cup {k} |-> IF x = k THEN v ELSE d[x]]

\* d.setdefault(k, v)
SetDefault(d, k, v) == IF k \in DOMAIN d THEN d ELSE Put(d, k, v)

\* the outcome of a call: a returned value or a raised exception
Ok(v) == [ok |-> TRUE, v |-> v]
Raise(e) == [ok |-> FALSE, v |-> e]

----------------------------------------------------------------------------
(* str methods, on sequences of symbols *)

Whitespace == {" ", "\t"}

IsSpace(c) == c \in Whitespace

RECURSIVE LStrip(_)
LStrip(s) == IF s # <<>> /\ IsSpace(Head(s)) THEN LStrip(Tail(s)) ELSE s

RECURSIVE RStrip(_)
RStrip(s) ==
    IF s # <<>> /\ IsSpace(s[Len(s)]) THEN RStrip(SubSeq(s, 1, Len(s) - 1)) ELSE s

\* s.strip()
Strip(s) == RStrip(LStrip(s))

\* the first whitespace-delimited token of s (s has no leading whitespace)
RECURSIVE FirstToken(_)
FirstToken(s) ==
    IF s = <<>> \/ IsSpace(Head(s)) THEN <<>> ELSE <<Head(s)>> \o FirstToken(Tail(s))

\* s.split(): the maximal whitespace-free runs of s, in order
RECURSIVE Split(_)
Split(s) ==
    LET t == LStrip(s)
    IN IF t = <<>> THEN <<>>
       ELSE LET w == FirstToken(t)
            IN <<w>> \o Split(SubSeq(t, Len(w) + 1, Len(t)))

\* c.upper() for the symbols of the model
Upper(c) ==
    CASE c = "a" -> "A"
      [] c = "b" -> "B"
      [] c = "z" -> "Z"
      [] OTHER -> c

\* c.isalnum()
IsAlnum(c) == c \in {"a", "b", "z", "A", "B", "Z", "O", "S", "7"}

----------------------------------------------------------------------------
(* Configuration: app.py lines 41-54 *)

\* the variables of the process environment the model tracks; None is unset
EnvNames == {"COMPANY_PHONE", "COMPANY_EMAIL", "APP_PASSWORD"}

\* os.getenv(name, default)
GetEnv(name, default) == IF environ[name].t = "null" THEN default ELSE environ[name]

DEFAULT_PHOTO == Str(<<"static/uploads/ntrace_logo.jpeg">>)

COMPANY_PHONE == GetEnv("COMPANY_PHONE", Str(<<"+33 6 62 54 45 33">>))

COMPANY_EMAIL == Str(<<"servicecommercial@ntrace-consulting.com">>)

----------------------------------------------------------------------------
(* ensure_schema: app.py lines 155-168 *)

PI_KEYS == <<"name", "title", "email", "phone", "location", "summary", "photo_path">>

\* PiDefault with the placeholder image forgotten
PiDefault_AllEmpty(key) == EmptyStr

\* the default ensure_schema gives a personal_info key
PiDefault(key) == IF key = "photo_path" THEN DEFAULT_PHOTO ELSE EmptyStr

\* the loop of lines 158-162 over keys[i..]
RECURSIVE PiSetDefaults(_, _, _)
PiSetDefaults(pi, keys, i) ==
    IF i > Len(keys) THEN pi
    ELSE PiSetDefaults(SetDefault(pi, keys[i], PiDefault(keys[i])), keys, i + 1)

\* ensure_schema that also rebases photo_path onto the static directory
ensure_schema_Rebased(data) ==
    LET d0 == IF Truthy(data) THEN data ELSE Dict(EmptyDict)
    IN IF d0.t # "dict" THEN Raise("AttributeError")
       ELSE LET pi == Get(d0.v, "personal_info", Dict(EmptyDict))
            IN IF pi.t # "dict" THEN Raise("AttributeError")
               ELSE LET pi0 == PiSetDefaults(pi.v, PI_KEYS, 1)
                        pi1 == Put(pi0, "photo_path",
                                   Str(<<"static/">> \o pi0["photo_path"].v))
                        d1 == Put(d0.v, "personal_info", Dict(pi1))
                        d2 == SetDefault(d1, "education", List(<<>>))
                        d3 == SetDefault(d2, "skills", List(<<>>))
                        d4 == SetDefault(d3, "experience", List(<<>>))
                        d5 == SetDefault(d4, "language", Str(<<"fr">>))
                    IN Ok(Dict(d5))

ensure_schema(data) ==
    LET d0 == IF Truthy(data) THEN data ELSE Dict(EmptyDict)
    IN IF d0.t # "dict" THEN Raise("AttributeError")
       ELSE LET pi == Get(d0.v, "personal_info", Dict(EmptyDict))
            IN IF pi.t # "dict" THEN Raise("AttributeError")
               ELSE LET pi1 == PiSetDefaults(pi.v, PI_KEYS, 1)
                        d1 == Put(d0.v, "personal_info", Dict(pi1))
                        d2 == SetDefault(d1, "education", List(<<>>))
                        d3 == SetDefault(d2, "skills", List(<<>>))
                        d4 == SetDefault(d3, "experience", List(<<>>))
                        d5 == SetDefault(d4, "language", Str(<<"fr">>))
                    IN Ok(Dict(d5))

----------------------------------------------------------------------------
(* The filtering pass of generate_docx: app.py lines 745-759 *)

\* the keys of a dict in iteration order (exact for dicts of at most one key)
RECURSIVE KeySeq(_)
KeySeq(ks) ==
    IF ks = {} THEN <<>>
    ELSE LET k == CHOOSE x \in ks : TRUE IN <<Str(<<k>>)>> \o KeySeq(ks \ {k})

\* `for x in v`: the items the loop visits, or the TypeError of a non-iterable
Iter(v) ==
    CASE v.t = "list" -> Ok(v.v)
      [] v.t = "str" -> Ok([i \in 1..Len(v.v) |-> Str(<<v.v[i]>>)])
      [] v.t = "dict" -> Ok(KeySeq(DOMAIN v.v))
      [] OTHER -> Raise("TypeError")

\* the condition `x and x.strip()`
NonBlank(x) ==
    IF ~Truthy(x) THEN Ok(FALSE)
    ELSE IF x.t # "str" THEN Raise("AttributeError")
    ELSE Ok(Strip(x.v) # <<>>)

\* [x for x in xs[i..] if x and x.strip()]
RECURSIVE KeepNonBlank(_, _)
KeepNonBlank(xs, i) ==
    IF i > Len(xs) THEN Ok(<<>>)
    ELSE LET c == NonBlank(xs[i])
         IN IF ~c.ok THEN c
            ELSE LET rest == KeepNonBlank(xs, i + 1)
                 IN IF ~rest.ok THEN rest
                    ELSE Ok((IF c.v THEN <<xs[i]>> ELSE <<>>) \o rest.v)

\* [x for x in v if x and x.strip()]
NonBlankItems(v) ==
    LET it == Iter(v) IN IF ~it.ok THEN it ELSE KeepNonBlank(it.v, 1)

\* (e.get(k1) and e[k1].strip()) or (e.get(k2) and e[k2].strip())
HasTitle(e, k1, k2) ==
    IF e.t # "dict" THEN Raise("AttributeError")
    ELSE LET a == NonBlank(Get(e.v, k1, None))
         IN IF ~a.ok THEN a
            ELSE IF a.v THEN Ok(TRUE)
            ELSE NonBlank(Get(e.v, k2, None))

\* [e for e in es[i..] if HasTitle(e, k1, k2)]
RECURSIVE KeepTitled(_, _, _, _)
KeepTitled(es, i, k1, k2) ==
    IF i > Len(es) THEN Ok(<<>>)
    ELSE LET c == HasTitle(es[i], k1, k2)
         IN IF ~c.ok THEN c
            ELSE LET rest == KeepTitled(es, i + 1, k1, k2)
                 IN IF ~rest.ok THEN rest
                    ELSE Ok((IF c.v THEN <<es[i]>> ELSE <<>>) \o rest.v)

\* [e for e in v if HasTitle(e, k1, k2)]
TitledEntries(v, k1, k2) ==
    LET it == Iter(v) IN IF ~it.ok THEN it ELSE KeepTitled(it.v, 1, k1, k2)

\* for e in es[i..]: e['details'] = [d for d in e.get('details', []) if d and d.strip()]
RECURSIVE CleanDetails(_, _)
CleanDetails(es, i) ==
    IF i > Len(es) THEN Ok(<<>>)
    ELSE LET ds == NonBlankItems(Get(es[i].v, "details", List(<<>>)))
         IN IF ~ds.ok THEN ds
            ELSE LET rest == CleanDetails(es, i + 1)
                 IN IF ~rest.ok THEN rest
                    ELSE Ok(<<Dict(Put(es[i].v, "details", List(ds.v)))>> \o rest.v)

\* FilterPass without the two loops of lines 756-759
FilterPass_KeepsDetails(d) ==
    LET sk == NonBlankItems(Get(d, "skills", List(<<>>)))
        ex == TitledEntries(Get(d, "experience", List(<<>>)), "role", "company")
        ed == TitledEntries(Get(d, "education", List(<<>>)), "degree", "school")
    IN IF ~sk.ok THEN sk
       ELSE IF ~ex.ok THEN ex
       ELSE IF ~ed.ok THEN ed
       ELSE Ok(Dict(Put(Put(Put(d, "skills", List(sk.v)),
                            "experience", List(ex.v)),
                        "education", List(ed.v))))

\* lines 747-759 on the dict d that ensure_schema returned
FilterPass(d) ==
    LET sk == NonBlankItems(Get(d, "skills", List(<<>>)))
        ex == TitledEntries(Get(d, "experience", List(<<>>)), "role", "company")
        ed == TitledEntries(Get(d, "education", List(<<>>)), "degree", "school")
    IN IF ~sk.ok THEN sk
       ELSE IF ~ex.ok THEN ex
       ELSE IF ~ed.ok THEN ed
       ELSE LET exd == CleanDetails(ex.v, 1)
                edd == CleanDetails(ed.v, 1)
            IN IF ~exd.ok THEN exd
               ELSE IF ~edd.ok THEN edd
               ELSE Ok(Dict(Put(Put(Put(d, "skills", List(sk.v)),
                                    "experience", List(exd.v)),
                                "education", List(edd.v))))

----------------------------------------------------------------------------
(* anonymize_data: app.py lines 218-234 *)

\* [p.strip() for p in name.split() if p.strip()]
NameParts(name) ==
    LET ts == SelectSeq(Split(name), LAMBDA p : Strip(p) # <<>>)
    IN [i \in 1..Len(ts) |-> Strip(ts[i])]

\* Initials taking the second part where the code takes the last
Initials_SecondPart(pi, name) ==
    LET parts == NameParts(name)
    IN IF name = <<>> THEN pi
       ELSE IF Len(parts) >= 2
            THEN Put(pi, "name",
                     Str(<<Upper(parts[1][1]), ".", " ", Upper(parts[2][1]), ".">>))
       ELSE IF Len(parts) = 1 THEN Put(pi, "name", Str(<<Upper(parts[1][1]), ".">>))
       ELSE pi

\* lines 224-229: pi after the name rule, name being the stripped name
Initials(pi, name) ==
    LET parts == NameParts(name)
    IN IF name = <<>> THEN pi
       ELSE IF Len(parts) >= 2
            THEN Put(pi, "name",
                     Str(<<Upper(parts[1][1]), ".", " ", Upper(parts[Len(parts)][1]), ".">>))
       ELSE IF Len(parts) = 1 THEN Put(pi, "name", Str(<<Upper(parts[1][1]), ".">>))
       ELSE pi

\* anonymize_data without the deepcopy of line 219: the caller's object is
\* the one that is rewritten and returned
anonymize_data_InPlace(data) ==
    IF data.t # "dict" THEN Raise("AttributeError")
    ELSE LET pi == Get(data.v, "personal_info", Dict(EmptyDict))
         IN IF pi.t # "dict" THEN Raise("AttributeError")
            ELSE LET nm == Get(pi.v, "name", EmptyStr)
                 IN IF nm.t # "str" THEN Raise("AttributeError")
                    ELSE LET pi1 == Initials(pi.v, Strip(nm.v))
                             pi2 == Put(pi1, "phone", COMPANY_PHONE)
                             pi3 == Put(pi2, "email", COMPANY_EMAIL)
                             out == Dict(Put(data.v, "personal_info", Dict(pi3)))
                         IN Ok([arg |-> out, ret |-> out])

\* the call anonymize_data(data): `arg` is the caller's object after the call,
\* `ret` the returned object (a deep copy of data, rewritten)
anonymize_data(data) ==
    LET anon == data
    IN IF anon.t # "dict" THEN Raise("AttributeError")
       ELSE LET pi == Get(anon.v, "personal_info", Dict(EmptyDict))
            IN IF pi.t # "dict" THEN Raise("AttributeError")
               ELSE LET nm == Get(pi.v, "name", EmptyStr)
                    IN IF nm.t # "str" THEN Raise("AttributeError")
                       ELSE LET pi1 == Initials(pi.v, Strip(nm.v))
                                pi2 == Put(pi1, "phone", COMPANY_PHONE)
                                pi3 == Put(pi2, "email", COMPANY_EMAIL)
                            IN Ok([arg |-> data,
                                   ret |-> Dict(Put(anon.v, "personal_info", Dict(pi3)))])

----------------------------------------------------------------------------
(* group_skills: app.py lines 126-152 *)

\* ', '.join(xs[i..]) for a list of str values
RECURSIVE JoinComma(_, _)
JoinComma(xs, i) ==
    IF i > Len(xs) THEN <<>>
    ELSE IF i = Len(xs) THEN xs[i].v
    ELSE xs[i].v \o <<",", " ">> \o JoinComma(xs, i + 1)

\* The answers world.llm of the chat-completion call of lines 136-146:
\*   "raise"   the call or json.loads raised
\*   "other"   the JSON parsed to something that is not a dict
\*   "dict"    the JSON parsed to a dict; items are its (category, value) pairs
\*             in order, possibly none; a value is whatever JSON the model
\*             wrote for the category, a str or, here, null
LlmAnswers ==
    { [kind |-> "raise", items |-> <<>>],
      [kind |-> "other", items |-> <<>>],
      [kind |-> "dict", items |-> <<>>],
      [kind |-> "dict", items |-> << <<Str(<<"Outils">>), Str(<<"x", ",", " ", "y">>)>> >>],
      [kind |-> "dict", items |-> << <<Str(<<"Outils">>), None>> >>],
      [kind |-> "dict", items |-> << <<Str(<<"Langages">>), Str(<<"y">>)>>,
                                     <<Str(<<"Outils">>), Str(<<"x">>)>> >>] }

\* group_skills(skills, lang); the returned mapping is the sequence of its items
group_skills(skills, lang) ==
    IF skills = <<>> THEN <<>>
    ELSE IF world.llm.kind = "dict" /\ world.llm.items # <<>> THEN world.llm.items
    ELSE LET label == IF lang # Str(<<"en">>) THEN Str(<<"Compétences">>)
                      ELSE Str(<<"Skills">>)
         IN << <<label, Str(JoinComma(skills, 1))>> >>

----------------------------------------------------------------------------
(* build_cv_document: app.py lines 352-507 *)

SUMMARY_MIN == 40

\* _is_real_summary measuring the text as given, whitespace included
_is_real_summary_Untrimmed(text) ==
    IF ~Truthy(text) THEN Ok(FALSE)
    ELSE IF text.t # "str" THEN Raise("AttributeError")
    ELSE IF Strip(text.v) = <<>> THEN Ok(FALSE)
    ELSE Ok(Len(text.v) >= SUMMARY_MIN)

\* _is_real_summary(text)
_is_real_summary(text) ==
    IF ~Truthy(text) THEN Ok(FALSE)
    ELSE IF text.t # "str" THEN Raise("AttributeError")
    ELSE IF Strip(text.v) = <<>> THEN Ok(FALSE)
    ELSE Ok(Len(Strip(text.v)) >= SUMMARY_MIN)

\* s.upper()
UpperStr(s) == [i \in 1..Len(s) |-> Upper(s[i])]

\* '\n'.join(contact_parts), lines 401-409
ContactText(pi) ==
    LET phone == Get(pi, "phone", EmptyStr)
        email == Get(pi, "email", EmptyStr)
        p1 == IF Truthy(phone) THEN << <<"Tél : ">> \o phone.v >> ELSE <<>>
        p2 == IF Truthy(email) THEN << <<"Email : ">> \o email.v >> ELSE <<>>
        parts == p1 \o p2
    IN IF Len(parts) = 0 THEN <<>>
       ELSE IF Len(parts) = 1 THEN parts[1]
       ELSE parts[1] \o <<"\n">> \o parts[2]

\* HeaderBlock letting the failure of the image insertion escape
HeaderBlock_PictureRequired(pi) ==
    LET logo_path == Get(pi, "photo_path", DEFAULT_PHOTO)
        title == Get(pi, "title", None)
    IN IF Truthy(logo_path) /\ ~(world.exists /\ world.loads) THEN Raise("FileNotFoundError")
       ELSE IF Truthy(title) /\ title.t # "str" THEN Raise("AttributeError")
       ELSE Ok([kind |-> "header",
                picture |-> Truthy(logo_path),
                info |-> <<"name", "title", "contact">>,
                name |-> Get(pi, "name", EmptyStr),
                title |-> IF Truthy(title) THEN Str(UpperStr(title.v)) ELSE EmptyStr,
                contact |-> Str(ContactText(pi))])

\* lines 378-410: the header table. world.exists is os.path.exists(logo_path),
\* world.loads whether add_picture succeeds on it. `info` lists the paragraphs
\* of the right cell in order: lines 393, 397 and 401 each add one, whatever
\* its text.
HeaderBlock(pi) ==
    LET logo_path == Get(pi, "photo_path", DEFAULT_PHOTO)
        title == Get(pi, "title", None)
    IN IF Truthy(title) /\ title.t # "str" THEN Raise("AttributeError")
       ELSE Ok([kind |-> "header",
                picture |-> Truthy(logo_path) /\ world.exists /\ world.loads,
                info |-> <<"name", "title", "contact">>,
                name |-> Get(pi, "name", EmptyStr),
                title |-> IF Truthy(title) THEN Str(UpperStr(title.v)) ELSE EmptyStr,
                contact |-> Str(ContactText(pi))])

\* lines 412-417
SummaryBlocks(pi) ==
    LET summary == Get(pi, "summary", EmptyStr)
        real == _is_real_summary(summary)
    IN IF ~real.ok THEN real
       ELSE Ok(IF real.v THEN <<[kind |-> "summary", text |-> summary]>> ELSE <<>>)

\* _add_section_heading(doc, text)
Heading(text) == [kind |-> "heading", text |-> Str(<<text>>)]

\* lines 426-431: one paragraph per item of the grouped mapping
SkillParagraphs(grouped) ==
    [i \in 1..Len(grouped) |->
        [kind |-> "skill", category |-> grouped[i][1], text |-> grouped[i][2]]]

\* SkillsBlocks emitting the heading whatever the filtered list holds
SkillsBlocks_AlwaysHeading(data, lang) ==
    LET skills == NonBlankItems(Get(data, "skills", List(<<>>)))
    IN IF ~skills.ok THEN skills
       ELSE Ok(<<Heading(IF lang # Str(<<"en">>) THEN "COMPETENCES PROFESSIONNELLES"
                         ELSE "PROFESSIONAL SKILLS")>>
               \o SkillParagraphs(group_skills(skills.v, lang)))

\* lines 419-431
SkillsBlocks(data, lang) ==
    LET skills == NonBlankItems(Get(data, "skills", List(<<>>)))
    IN IF ~skills.ok THEN skills
       ELSE IF skills.v = <<>> THEN Ok(<<>>)
       ELSE Ok(<<Heading(IF lang # Str(<<"en">>) THEN "COMPETENCES PROFESSIONNELLES"
                         ELSE "PROFESSIONAL SKILLS")>>
               \o SkillParagraphs(group_skills(skills.v, lang)))

\* TableRows filling the table from its last row upwards
RECURSIVE TableRows_Reversed(_, _, _, _)
TableRows_Reversed(es, i, ktitle, korg) ==
    IF i > Len(es) THEN Ok(<<>>)
    ELSE LET period == Get(es[i].v, "period", EmptyStr)
             title == Get(es[i].v, ktitle, EmptyStr)
             org == Get(es[i].v, korg, EmptyStr)
             details == NonBlankItems(Get(es[i].v, "details", List(<<>>)))
         IN IF ~details.ok THEN details
            ELSE LET rest == TableRows_Reversed(es, i + 1, ktitle, korg)
                 IN IF ~rest.ok THEN rest
                    ELSE Ok(rest.v \o
                            <<[left |-> <<period>> \o (IF Truthy(org) THEN <<org>> ELSE <<>>),
                               right |-> <<title>> \o details.v]>>)

\* lines 446-468 (483-505): the table rows of entries es[i..]; a row is its
\* left cell and its right cell, each the texts of its paragraphs in order
RECURSIVE TableRows(_, _, _, _)
TableRows(es, i, ktitle, korg) ==
    IF i > Len(es) THEN Ok(<<>>)
    ELSE LET period == Get(es[i].v, "period", EmptyStr)
             title == Get(es[i].v, ktitle, EmptyStr)
             org == Get(es[i].v, korg, EmptyStr)
             details == NonBlankItems(Get(es[i].v, "details", List(<<>>)))
         IN IF ~details.ok THEN details
            ELSE LET rest == TableRows(es, i + 1, ktitle, korg)
                 IN IF ~rest.ok THEN rest
                    ELSE Ok(<<[left |-> <<period>> \o (IF Truthy(org) THEN <<org>> ELSE <<>>),
                               right |-> <<title>> \o details.v]>> \o rest.v)

\* EntryBlocks with a row of column titles on top of the table
EntryBlocks_HeaderRow(data, key, ktitle, korg, heading) ==
    LET es == TitledEntries(Get(data, key, List(<<>>)), ktitle, korg)
    IN IF ~es.ok THEN es
       ELSE IF es.v = <<>> THEN Ok(<<>>)
       ELSE LET rows == TableRows(es.v, 1, ktitle, korg)
            IN IF ~rows.ok THEN rows
               ELSE Ok(<<Heading(heading),
                         [kind |-> "table",
                          rows |-> <<[left |-> <<Str(<<"period">>)>>,
                                      right |-> <<Str(<<ktitle>>)>>]>> \o rows.v]>>)

\* lines 433-468 and 470-505: heading and table of one entry list
EntryBlocks(data, key, ktitle, korg, heading) ==
    LET es == TitledEntries(Get(data, key, List(<<>>)), ktitle, korg)
    IN IF ~es.ok THEN es
       ELSE IF es.v = <<>> THEN Ok(<<>>)
       ELSE LET rows == TableRows(es.v, 1, ktitle, korg)
            IN IF ~rows.ok THEN rows
               ELSE Ok(<<Heading(heading), [kind |-> "table", rows |-> rows.v]>>)

\* build_cv_document composing the education block before the experience block
build_cv_document_EducationFirst(data, lang) ==
    IF "personal_info" \notin DOMAIN data.v THEN Raise("KeyError")
    ELSE LET pi == data.v["personal_info"].v
             hd == HeaderBlock(pi)
             sm == SummaryBlocks(pi)
             sk == SkillsBlocks(data.v, lang)
             ex == EntryBlocks(data.v, "experience", "role", "company",
                               IF lang # Str(<<"en">>) THEN "EXPÉRIENCES PROFESSIONNELLES"
                               ELSE "PROFESSIONAL EXPERIENCE")
             ed == EntryBlocks(data.v, "education", "degree", "school",
                               IF lang # Str(<<"en">>) THEN "FORMATIONS ET DIPLÔMES"
                               ELSE "EDUCATION")
         IN IF ~hd.ok THEN hd
            ELSE IF ~sm.ok THEN sm
            ELSE IF ~sk.ok THEN sk
            ELSE IF ~ex.ok THEN ex
            ELSE IF ~ed.ok THEN ed
            ELSE Ok(<<hd.v>> \o sm.v \o sk.v \o ed.v \o ex.v)

\* build_cv_document with the education heading in English whatever lang is
build_cv_document_EnglishEducation(data, lang) ==
    IF "personal_info" \notin DOMAIN data.v THEN Raise("KeyError")
    ELSE LET pi == data.v["personal_info"].v
             hd == HeaderBlock(pi)
             sm == SummaryBlocks(pi)
             sk == SkillsBlocks(data.v, lang)
             ex == EntryBlocks(data.v, "experience", "role", "company",
                               IF lang # Str(<<"en">>) THEN "EXPÉRIENCES PROFESSIONNELLES"
                               ELSE "PROFESSIONAL EXPERIENCE")
             ed == EntryBlocks(data.v, "education", "degree", "school", "EDUCATION")
         IN IF ~hd.ok THEN hd
            ELSE IF ~sm.ok THEN sm
            ELSE IF ~sk.ok THEN sk
            ELSE IF ~ex.ok THEN ex
            ELSE IF ~ed.ok THEN ed
            ELSE Ok(<<hd.v>> \o sm.v \o sk.v \o ex.v \o ed.v)

\* build_cv_document(data, lang): the blocks of the returned document in order
build_cv_document(data, lang) ==
    IF "personal_info" \notin DOMAIN data.v THEN Raise("KeyError")
    ELSE LET pi == data.v["personal_info"].v
             hd == HeaderBlock(pi)
             sm == SummaryBlocks(pi)
             sk == SkillsBlocks(data.v, lang)
             ex == EntryBlocks(data.v, "experience", "role", "company",
                               IF lang # Str(<<"en">>) THEN "EXPÉRIENCES PROFESSIONNELLES"
                               ELSE "PROFESSIONAL EXPERIENCE")
             ed == EntryBlocks(data.v, "education", "degree", "school",
                               IF lang # Str(<<"en">>) THEN "FORMATIONS ET DIPLÔMES"
                               ELSE "EDUCATION")
         IN IF ~hd.ok THEN hd
            ELSE IF ~sm.ok THEN sm
            ELSE IF ~sk.ok THEN sk
            ELSE IF ~ex.ok THEN ex
            ELSE IF ~ed.ok THEN ed
            ELSE Ok(<<hd.v>> \o sm.v \o sk.v \o ex.v \o ed.v)

----------------------------------------------------------------------------
(* generate_docx: app.py lines 738-777 *)

\* SafeChars letting the dots through as well
SafeChars_KeepsDots(s) == SelectSeq(s, LAMBDA c : IsAlnum(c) \/ c \in {" ", "_", "."})

\* ''.join(c for c in s if c.isalnum() or c in (' ', '_'))
SafeChars(s) == SelectSeq(s, LAMBDA c : IsAlnum(c) \/ c \in {" ", "_"})

\* s.replace(' ', '_')
SpacesToUnderscores(s) == [i \in 1..Len(s) |-> IF s[i] = " " THEN "_" ELSE s[i]]

\* lines 766-768: the download name for the anonymized record
DownloadName(anon) ==
    LET anon_name == Get(anon.v["personal_info"].v, "name", Str(<<"C", "V">>))
        clean_name == SpacesToUnderscores(Strip(SafeChars(anon_name.v)))
    IN IF clean_name # <<>> THEN <<"C", "V", "_">> \o clean_name \o <<".docx">>
       ELSE <<"generated_cv.docx">>

\* what a file holds: nothing yet, the first part of a document being
\* written, a complete document, or the interleaved bytes of two writers
NoFile == [st |-> "absent", doc |-> <<>>]
PartialFile(doc) == [st |-> "partial", doc |-> doc]
FullFile(doc) == [st |-> "full", doc |-> doc]
MixedFile == [st |-> "mixed", doc |-> <<>>]

NoResp == [status |-> 0, error |-> "", body |-> NoFile, filename |-> <<>>]

\* jsonify({"error": str(e)}), 500
ErrorResp(e) == [status |-> 500, error |-> e, body |-> NoFile, filename |-> <<>>]

NThreads == 2
Threads == 1..NThreads

\* a request thread that handles no request
Off ==
    [pc |-> "off", at |-> "", body |-> None, data |-> None, lang |-> None, anon |-> None,
     doc |-> <<>>, filename |-> <<>>, resp |-> NoResp]

\* line 741: the handler is entered with data = request.json
Entered(body) == [Off EXCEPT !.pc = "start", !.body = body, !.data = body]

\* Fail answering with whatever the shared output path holds
Fail_SendsFile(r, e) ==
    req' = [req EXCEPT ![r].pc = "error", ![r].at = req[r].pc,
                       ![r].resp = [ErrorResp(e) EXCEPT !.body = outfile]]

\* lines 775-777: the except clause; `at` keeps where the exception was raised
Fail(r, e) ==
    req' = [req EXCEPT ![r].pc = "error", ![r].at = req[r].pc, ![r].resp = ErrorResp(e)]

\* lines 744-745
Normalize(r) ==
    /\ req[r].pc = "start"
    /\ LET o == ensure_schema(req[r].data)
       IN IF o.ok
          THEN req' = [req EXCEPT ![r].pc = "normalized",
                                  ![r].data = o.v,
                                  ![r].lang = Get(o.v.v, "language", Str(<<"fr">>))]
          ELSE Fail(r, o.v)
    /\ UNCHANGED <<outfile, envVars, authVars, jobVars>>

\* lines 747-759
Filter(r) ==
    /\ req[r].pc = "normalized"
    /\ LET o == FilterPass(req[r].data.v)
       IN IF o.ok
          THEN req' = [req EXCEPT ![r].pc = "filtered", ![r].data = o.v]
          ELSE Fail(r, o.v)
    /\ UNCHANGED <<outfile, envVars, authVars, jobVars>>

\* line 761
Anonymize(r) ==
    /\ req[r].pc = "filtered"
    /\ LET o == anonymize_data(req[r].data)
       IN IF o.ok
          THEN req' = [req EXCEPT ![r].pc = "anonymized",
                                  ![r].data = o.v.arg,
                                  ![r].anon = o.v.ret]
          ELSE Fail(r, o.v)
    /\ UNCHANGED <<outfile, envVars, authVars, jobVars>>

\* lines 764-768
Build(r) ==
    /\ req[r].pc = "anonymized"
    /\ LET o == build_cv_document(req[r].anon, req[r].lang)
       IN IF o.ok
          THEN req' = [req EXCEPT ![r].pc = "built",
                                  ![r].doc = o.v,
                                  ![r].filename = DownloadName(req[r].anon)]
          ELSE Fail(r, o.v)
    /\ UNCHANGED <<outfile, envVars, authVars, jobVars>>

\* line 771, doc.save(docx_path): the zip writer opens the one path every
\* request shares for writing, which truncates it ...
SaveBegin(r) ==
    /\ req[r].pc = "built"
    /\ req' = [req EXCEPT ![r].pc = "saving"]
    /\ outfile' = IF \E q \in Threads \ {r} : req[q].pc = "saving"
                  THEN MixedFile
                  ELSE PartialFile(req[r].doc)
    /\ UNCHANGED <<envVars, authVars, jobVars>>

\* ... writes the parts and closes it
SaveEnd(r) ==
    /\ req[r].pc = "saving"
    /\ req' = [req EXCEPT ![r].pc = "saved"]
    /\ outfile' = IF outfile = PartialFile(req[r].doc)
                     /\ ~ \E q \in Threads \ {r} : req[q].pc = "saving"
                  THEN FullFile(req[r].doc)
                  ELSE MixedFile
    /\ UNCHANGED <<envVars, authVars, jobVars>>

\* ... or fails on the way (disk full, permissions) and raises
SaveFail(r) ==
    /\ req[r].pc = "saving"
    /\ Fail(r, "OSError")
    /\ UNCHANGED <<outfile, envVars, authVars, jobVars>>

\* line 773, send_file(docx_path, ...): the response wraps the open file
SendFile(r) ==
    /\ req[r].pc = "saved"
    /\ req' = [req EXCEPT ![r].pc = "sent",
                          ![r].resp = [NoResp EXCEPT !.status = 200,
                                                     !.filename = req[r].filename]]
    /\ UNCHANGED <<outfile, envVars, authVars, jobVars>>

\* the WSGI server iterates the response: the file is read now
Stream(r) ==
    /\ req[r].pc = "sent"
    /\ req' = [req EXCEPT ![r].pc = "done", ![r].resp.body = outfile]
    /\ UNCHANGED <<outfile, envVars, authVars, jobVars>>

----------------------------------------------------------------------------
(* The job store: app.py lines 49-50 and 656-735 *)

MaxJobs == 2
NPollers == 2

JobIds == 1..MaxJobs
Pollers == 1..NPollers

ALLOWED_EXTENSIONS == {".pdf", ".doc", ".docx"}

\* the uploads a client may post: no file, or a file with this extension
Uploads ==
    {[present |-> p, ext |-> e] : p \in BOOLEAN, e \in {".pdf", ".doc", ".docx", ".txt"}}

\* a value of the dict `jobs`; `about` is the job the payload belongs to and
\* `note` tells the payloads of one job apart
Job(status, id, note) == [status |-> status, about |-> id, note |-> note]

\* jobs.get(job_id) when the key is absent
NoJob == Job("none", 0, "")

\* what the external calls of a worker do: TRUE when the call returns,
\* FALSE when it raises. extract_text is line 658, extraction the LLM call of
\* line 660, postprocess lines 662-666, analysis the LLM call of line 669.
CallOutcomes ==
    [extract_text : BOOLEAN, extraction : BOOLEAN, postprocess : BOOLEAN,
     analysis : BOOLEAN]

\* _process_cv_job with a failed analysis call leaving the job as it is
_process_cv_job_DropsFallback(job_id, calls) ==
    IF ~calls.extract_text THEN Job("error", job_id, "extract_text")
    ELSE IF ~calls.extraction THEN Job("error", job_id, "extraction")
    ELSE IF ~calls.postprocess THEN Job("error", job_id, "postprocess")
    ELSE IF ~calls.analysis THEN Job("processing", job_id, "")
    ELSE Job("done", job_id, "analysis")

\* _process_cv_job(job_id, cv_path, ext), lines 656-684: the value the thread
\* writes to jobs[job_id]. An exception of lines 658-666 is caught at line
\* 682 and gives an error job; one of the analysis call is caught at line
\* 670 and the fallback analysis of lines 672-677 is attached to a done job.
_process_cv_job(job_id, calls) ==
    IF ~calls.extract_text THEN Job("error", job_id, "extract_text")
    ELSE IF ~calls.extraction THEN Job("error", job_id, "extraction")
    ELSE IF ~calls.postprocess THEN Job("error", job_id, "postprocess")
    ELSE IF ~calls.analysis THEN Job("done", job_id, "fallback")
    ELSE Job("done", job_id, "analysis")

\* the ways _process_cv_job ends
WorkerEndings == {_process_cv_job(0, c) : c \in CallOutcomes}

\* parse_cv, lines 689-706: a valid upload is saved, a fresh job id is drawn
\* and entered in the store as processing
ParseCv ==
    /\ nextJob < MaxJobs
    /\ \E up \in Uploads : up.present /\ up.ext \in ALLOWED_EXTENSIONS
    /\ LET id == nextJob + 1
       IN /\ jobs' = Put(jobs, id, Job("processing", id, ""))
          /\ worker' = Put(worker, id, "created")
          /\ delivered' = Put(delivered, id, 0)
          /\ nextJob' = id
    /\ UNCHANGED <<poll, envVars, authVars, renderVars>>

\* parse_cv, lines 708-715: thread.start()
StartWorker(id) ==
    /\ id \in DOMAIN worker
    /\ worker[id] = "created"
    /\ worker' = [worker EXCEPT ![id] = "running"]
    /\ UNCHANGED <<jobs, poll, nextJob, delivered, envVars, authVars, renderVars>>

\* WorkerEnds that may write an outcome again after it has written one
WorkerEnds_Rewrites(id) ==
    /\ id \in DOMAIN worker
    /\ worker[id] \in {"running", "finished"}
    /\ \E e \in WorkerEndings : jobs' = Put(jobs, id, Job(e.status, id, e.note))
    /\ worker' = [worker EXCEPT ![id] = "finished"]
    /\ UNCHANGED <<poll, nextJob, delivered, envVars, authVars, renderVars>>

\* _process_cv_job, lines 656-684: the thread of job id ends and writes the
\* outcome into the store
WorkerEnds(id) ==
    /\ id \in DOMAIN worker
    /\ worker[id] = "running"
    /\ \E e \in WorkerEndings : jobs' = Put(jobs, id, Job(e.status, id, e.note))
    /\ worker' = [worker EXCEPT ![id] = "finished"]
    /\ UNCHANGED <<poll, nextJob, delivered, envVars, authVars, renderVars>>

\* the answers of job_status
NoAnswer == [code |-> 0, kind |-> "", job |-> NoJob]
Answer(code, kind, job) == [code |-> code, kind |-> kind, job |-> job]

\* a poller between two requests
Idle == [pc |-> "idle", id |-> 0, job |-> NoJob, late |-> FALSE, resp |-> NoAnswer]

\* job_status, line 721: job = jobs.get(job_id); `late` notes whether the
\* outcome of the job had been given to a poll before this one began
PollGet(p, id) ==
    /\ poll[p].pc = "idle"
    /\ poll' = [poll EXCEPT ![p] =
                   [pc |-> "got", id |-> id,
                    job |-> IF id \in DOMAIN jobs THEN jobs[id] ELSE NoJob,
                    late |-> id \in DOMAIN delivered /\ delivered[id] > 0,
                    resp |-> NoAnswer]]
    /\ UNCHANGED <<jobs, worker, nextJob, delivered, envVars, authVars, renderVars>>

\* job_status, lines 722-735, on the job object read at line 721
PollAnswer(p) ==
    /\ poll[p].pc = "got"
    /\ LET job == poll[p].job
           id == poll[p].id
       IN IF job.status = "none"
          THEN /\ poll' = [poll EXCEPT ![p].pc = "done",
                                       ![p].resp = Answer(404, "Job not found", NoJob)]
               /\ UNCHANGED <<jobs, delivered>>
          ELSE IF job.status \in {"done", "error"}
          THEN IF id \in DOMAIN jobs
               THEN /\ jobs' = [j \in DOMAIN jobs \ {id} |-> jobs[j]]
                    /\ delivered' = [delivered EXCEPT ![id] = @ + 1]
                    /\ poll' = [poll EXCEPT ![p].pc = "done",
                                            ![p].resp =
                                                Answer(IF job.status = "done" THEN 200 ELSE 500,
                                                       job.status, job)]
               ELSE \* del jobs[job_id] raises KeyError, which nothing catches
                    /\ poll' = [poll EXCEPT ![p].pc = "done",
                                            ![p].resp = Answer(500, "KeyError", NoJob)]
                    /\ UNCHANGED <<jobs, delivered>>
          ELSE /\ poll' = [poll EXCEPT ![p].pc = "done",
                                       ![p].resp = Answer(200, "processing", NoJob)]
               /\ UNCHANGED <<jobs, delivered>>
    /\ UNCHANGED <<worker, nextJob, envVars, authVars, renderVars>>

\* the client has its answer and may poll again
PollAgain(p) ==
    /\ poll[p].pc = "done"
    /\ poll' = [poll EXCEPT ![p] = Idle]
    /\ UNCHANGED <<jobs, worker, nextJob, delivered, envVars, authVars, renderVars>>

----------------------------------------------------------------------------
(* Password protection: app.py lines 30-39 and 514-535 *)

NClients == 2
Clients == 1..NClients

\* APP_PASSWORD = os.getenv("APP_PASSWORD", "").strip(), line 31
APP_PASSWORD == Str(Strip(GetEnv("APP_PASSWORD", EmptyStr).v))

\* a session cookie without keys; flask signs the cookie with a key drawn
\* at start (line 28), so a client holds only what the handlers stored
NoSession == [k \in {} |-> FALSE]

\* session.get('authenticated')
Authenticated(c) == Get(session[c], "authenticated", FALSE)

\* session.pop(k, None)
Pop(d, k) == [x \in DOMAIN d \ {k} |-> d[x]]

\* the endpoints decorated with login_required, lines 532, 687, 718, 738
ProtectedEndpoints == {"index", "parse-cv", "job-status", "generate-docx"}

NoResponse ==
    [client |-> 0, endpoint |-> "", method |-> "", password |-> <<>>,
     resp |-> "", error |-> ""]

Response(c, endpoint, method, password, resp, error) ==
    [client |-> c, endpoint |-> endpoint, method |-> method,
     password |-> password, resp |-> resp, error |-> error]

\* login_required without the test of the session
login_required_Open(c) == TRUE

\* login_required, lines 33-39: TRUE when the decorated handler is run,
\* FALSE when the request is redirected to login
login_required(c) == ~(Truthy(APP_PASSWORD) /\ ~Authenticated(c))

\* a request to a protected endpoint; what the handler itself does is the
\* subject of the actions Normalize to Build, ParseCv and PollGet to PollAgain
Protected(c, endpoint) ==
    /\ served' = Response(c, endpoint, "GET", <<>>,
                          IF login_required(c) THEN "handler" ELSE "redirect login",
                          "")
    /\ UNCHANGED <<session, envVars, renderVars, jobVars>>

\* login, lines 514-525; password is request.form.get('password', '')
Login(c, method, password) ==
    /\ IF ~Truthy(APP_PASSWORD)
       THEN /\ served' = Response(c, "login", method, password, "redirect index", "")
            /\ UNCHANGED session
       ELSE IF method = "POST" /\ Str(password) = APP_PASSWORD
       THEN /\ session' = [session EXCEPT ![c] = Put(@, "authenticated", TRUE)]
            /\ served' = Response(c, "login", method, password, "redirect index", "")
       ELSE /\ served' = Response(c, "login", method, password, "login.html",
                                  IF method = "POST" THEN "Invalid password" ELSE "")
            /\ UNCHANGED session
    /\ UNCHANGED <<envVars, renderVars, jobVars>>

\* logout, lines 527-530
Logout(c) ==
    /\ session' = [session EXCEPT ![c] = Pop(@, "authenticated")]
    /\ served' = Response(c, "logout", "GET", <<>>, "redirect login", "")
    /\ UNCHANGED <<envVars, renderVars, jobVars>>

----------------------------------------------------------------------------
(* The request bodies, environments and outside worlds of the model *)

MaxNameLen == 5
MaxSkills == 3
MaxEntries == 2
MaxDetails == 2

\* the sequences over S of length at most n
SeqsUpTo(S, n) == UNION {[1..k -> S] : k \in 0..n}

\* the str repeating symbol c n times
Repeat(c, n) == [i \in 1..n |-> c]

TOP_KEYS == {"personal_info", "education", "experience", "skills", "language"}
PiKeySet == {PI_KEYS[i] : i \in 1..Len(PI_KEYS)}

ExpEntry(role, company, details) ==
    Dict("period" :> Str(<<"2020">>) @@ "role" :> role @@ "company" :> company
         @@ "details" :> details)

EduEntry(degree, school, details) ==
    Dict("period" :> Str(<<"2010">>) @@ "degree" :> degree @@ "school" :> school
         @@ "details" :> details)

BaseDetails == List(<<Str(<<"d">>), EmptyStr, Str(<<"e">>)>>)

BasePi ==
    "name" :> Str(<<"a", " ", "b">>) @@ "title" :> Str(<<"b", "a">>)
    @@ "email" :> Str(<<"me@home">>) @@ "phone" :> Str(<<"0600">>)
    @@ "location" :> Str(<<"Paris">>) @@ "summary" :> Str(<<"a">>)
    @@ "photo_path" :> Str(<<"static/uploads/me.png">>)

BaseTop ==
    "personal_info" :> Dict(BasePi)
    @@ "education" :> List(<<EduEntry(Str(<<"B">>), EmptyStr, BaseDetails)>>)
    @@ "experience" :> List(<<ExpEntry(Str(<<"a">>), Str(<<"z">>), BaseDetails)>>)
    @@ "skills" :> List(<<Str(<<"x">>), Str(<<" ">>), Str(<<"y">>)>>)
    @@ "language" :> Str(<<"en">>)

BaseBody == Dict(BaseTop)

\* the body with personal_info key k set to v
WithPi(k, v) == Dict(Put(BaseTop, "personal_info", Dict(Put(BasePi, k, v))))

\* the body with top-level key k set to v
WithTop(k, v) == Dict(Put(BaseTop, k, v))

\* a dict keeping of base the keys st marks "value", holding None at those it
\* marks "null" and lacking those it marks "missing"
Shaped(base, st) ==
    [k \in {x \in DOMAIN base : st[x] # "missing"} |->
        IF st[k] = "null" THEN None ELSE base[k]]

ShapedBody(ts, ps) ==
    Dict(Shaped(Put(BaseTop, "personal_info", Dict(Shaped(BasePi, ps))), ts))

\* every subset of the top-level keys and of the personal_info keys missing
MissingBodies ==
    {ShapedBody(ts, ps) : ts \in [TOP_KEYS -> {"missing", "value"}],
                          ps \in [PiKeySet -> {"missing", "value"}]}

\* every field missing, null or set: the top-level ones, and those of personal_info
NullBodies ==
    {Dict(Shaped(BaseTop, ts)) : ts \in [TOP_KEYS -> {"missing", "null", "value"}]}
    \cup {ShapedBody([k \in TOP_KEYS |-> "value"], ps) :
              ps \in [PiKeySet -> {"missing", "null", "value"}]}

NameChars == {"a", "z", " ", "-"}

NameBodies ==
    {WithPi("name", Str(n)) : n \in SeqsUpTo(NameChars, MaxNameLen)}
    \cup {WithPi("name", Str(n)) :
              n \in {<<"\t">>, <<"a", "\t", "b">>, <<"_", "a">>, <<"7", " ", "B">>}}

SkillPool == {EmptyStr, Str(<<" ">>), Str(<<"x">>), Str(<<"y">>)}

SkillBodies == {WithTop("skills", List(l)) : l \in SeqsUpTo(SkillPool, MaxSkills)}

TitlePool == {None, EmptyStr, Str(<<"\t">>), Str(<<"a">>)}

ExpPool ==
    {ExpEntry(t, EmptyStr, BaseDetails) : t \in TitlePool}
    \cup {ExpEntry(t, Str(<<"z">>), List(<<Str(<<"e">>)>>)) : t \in {None, Str(<<"b">>)}}
    \cup {Dict("company" :> Str(<<"z">>)), Dict("role" :> Str(<<" ">>))}

EduPool ==
    {EduEntry(t, EmptyStr, BaseDetails) : t \in TitlePool}
    \cup {EduEntry(t, Str(<<"z">>), List(<<Str(<<"e">>)>>)) : t \in {None, Str(<<"b">>)}}
    \cup {Dict("school" :> Str(<<"z">>)), Dict("degree" :> Str(<<" ">>))}

DetailPool == {EmptyStr, Str(<<" ">>), Str(<<"d">>), Str(<<"e">>)}

EntryBodies ==
    {WithTop("experience", List(l)) : l \in SeqsUpTo(ExpPool, MaxEntries)}
    \cup {WithTop("education", List(l)) : l \in SeqsUpTo(EduPool, MaxEntries)}
    \cup {WithTop("experience", List(<<ExpEntry(Str(<<"a">>), EmptyStr, List(ds)),
                                      ExpEntry(EmptyStr, Str(<<"z">>), BaseDetails)>>)) :
              ds \in SeqsUpTo(DetailPool, MaxDetails)}
    \cup {WithTop("education", List(<<EduEntry(EmptyStr, Str(<<"z">>), List(ds))>>)) :
              ds \in SeqsUpTo(DetailPool, MaxDetails)}

SummaryBodies ==
    {WithPi("summary", Str(t)) :
        t \in {Repeat("a", SUMMARY_MIN - 1), Repeat("a", SUMMARY_MIN),
               <<" ">> \o Repeat("a", SUMMARY_MIN - 1) \o <<"\t">>,
               <<" ">> \o Repeat("a", SUMMARY_MIN) \o <<" ">>,
               Repeat(" ", SUMMARY_MIN + 1)}}

LanguageBodies ==
    {WithTop("language", Str(<<l>>)) : l \in {"fr", "en", "EN", "de"}}

\* values that are not lists, in a tuple (a str, a number and a dict are not
\* comparable as elements of one set)
NonLists ==
    <<Str(<<"x", "y">>), EmptyStr, Num(5), Num(0), Dict("x" :> Str(<<"y">>)), Dict(EmptyDict)>>

\* values that are not objects
NonObjects == {Str(<<"a">>), EmptyStr, Num(5), None, List(<<>>)}

Bodies ==
    {None} \cup MissingBodies \cup NullBodies \cup NameBodies \cup SkillBodies
    \cup EntryBodies \cup SummaryBodies \cup LanguageBodies

\* the environments: each variable unset or set
Envs ==
    {[n \in EnvNames |-> IF n \in set THEN Str(<<n, "=configured">>) ELSE None] :
        set \in SUBSET {"COMPANY_PHONE", "COMPANY_EMAIL"}}

EnvUnset == [n \in EnvNames |-> None]

\* the bodies run under every environment
EnvBodies ==
    {WithPi("phone", p) : p \in {None, EmptyStr, Str(<<"0600">>)}}
    \cup {WithPi("email", p) : p \in {None, EmptyStr}}
    \cup {Dict([k \in {"skills"} |-> List(<<>>)])}

\* the outside worlds: the logo file missing, unreadable or fine, and each
\* answer of the completion endpoint
Worlds ==
    {[exists |-> e, loads |-> l, llm |-> a] :
        e \in BOOLEAN, l \in BOOLEAN, a \in LlmAnswers}

WorldBase ==
    [exists |-> TRUE, loads |-> TRUE, llm |-> [kind |-> "raise", items |-> <<>>]]

\* the bodies run under every outside world
WorldBodies ==
    {BaseBody, WithTop("skills", List(<<>>)), WithTop("language", Str(<<"fr">>)),
     WithPi("photo_path", None), WithPi("photo_path", EmptyStr),
     Dict(Shaped(BasePi, [k \in PiKeySet |-> IF k = "photo_path" THEN "missing" ELSE "value"]))}


\* records handed to build_cv_document directly
ContactPool == {None, EmptyStr, Str(<<" ">>), Str(<<"0600">>)}

ContactRecords ==
    {Dict(Put(BaseTop, "personal_info",
              Dict(Put(Put(BasePi, "phone", p), "email", e)))) :
        p \in ContactPool, e \in {None, EmptyStr, Str(<<" ">>), Str(<<"me@home">>)}}
    \cup {Dict(Put(BaseTop, "personal_info", Dict(Shaped(BasePi,
              [k \in PiKeySet |-> IF k \in miss THEN "missing" ELSE "value"])))) :
              miss \in SUBSET {"phone", "email"}}

ComposeNameChars == {"A", ".", " ", "_"}

NameRecords ==
    {WithPi("name", Str(n)) : n \in SeqsUpTo(ComposeNameChars, MaxNameLen)}
    \cup {WithPi("name", Str(n)) :
              n \in {<<"O", ".", " ", "S", ".">>, <<"-", ".">>, <<"\t">>, <<"7", ".", " ", "B", ".">>}}

SummaryRecords ==
    SummaryBodies
    \cup {WithPi("summary", v) : v \in {None, EmptyStr, Str(<<"a", " ", "b">>)}}
    \cup {Dict(Put(BaseTop, "personal_info", Dict(Shaped(BasePi,
              [k \in PiKeySet |-> IF k = "summary" THEN "missing" ELSE "value"]))))}

\* every combination of the optional blocks present or absent
SectionRecords ==
    {Dict(Put(Put(Put(Put(BaseTop,
        "personal_info", Dict(Put(BasePi, "summary",
                                  IF sm THEN Str(Repeat("a", SUMMARY_MIN)) ELSE EmptyStr))),
        "skills", IF sk THEN BaseTop["skills"] ELSE List(<<>>)),
        "experience", IF ex THEN BaseTop["experience"] ELSE List(<<>>)),
        "education", IF ed THEN BaseTop["education"] ELSE List(<<>>))) :
        sm \in BOOLEAN, sk \in BOOLEAN, ex \in BOOLEAN, ed \in BOOLEAN}
    \cup {Dict(Shaped(BaseTop, [k \in TOP_KEYS |->
              IF k \in miss THEN "missing" ELSE "value"])) :
              miss \in SUBSET {"education", "experience", "skills"}}

ComposeRecords ==
    ContactRecords \cup NameRecords \cup SummaryRecords \cup SectionRecords
    \cup SkillBodies \cup EntryBodies

\* the records composed under every outside world and lang
WorldRecords == SectionRecords \cup WorldBodies

Langs == {Str(<<l>>) : l \in {"fr", "en", "EN", "de"}} \cup {None}

----------------------------------------------------------------------------
(* Spec: one generate_docx request up to the composed document *)

\* no upload was made and nobody polls
JobsIdle ==
    /\ jobs = [j \in {} |-> None]
    /\ worker = [j \in {} |-> "none"]
    /\ poll = [p \in {} |-> None]
    /\ nextJob = 0
    /\ delivered = [j \in {} |-> 0]

\* no client has a session yet and no request was answered
AuthIdle ==
    /\ session = [c \in Clients |-> NoSession]
    /\ served = NoResponse

InitRest ==
    /\ outfile = NoFile
    /\ JobsIdle
    /\ AuthIdle

\* the request, the environment and the outside world at the start
Begin(b, e, w) ==
    /\ req = [r \in Threads |-> IF r = 1 THEN Entered(b) ELSE Off]
    /\ environ = e
    /\ world = w

Init ==
    /\ \/ \E b \in Bodies : Begin(b, EnvUnset, WorldBase)
       \/ \E b \in EnvBodies, e \in Envs : Begin(b, e, WorldBase)
       \/ \E b \in WorldBodies, w \in Worlds : Begin(b, EnvUnset, w)
    /\ InitRest

Next ==
    \E r \in Threads :
        \/ Normalize(r)
        \/ Filter(r)
        \/ Anonymize(r)
        \/ Build(r)

Spec == Init /\ [][Next]_vars

----------------------------------------------------------------------------
(* SpecRender: concurrent generate_docx requests, to the streamed response *)

\* the bodies of the concurrent requests: two records that differ, and one
\* for each of the filtering pass, ensure_schema, anonymize_data and
\* build_cv_document that makes it raise
RenderBodies ==
    {BaseBody, WithPi("name", Str(<<"z">>)), WithTop("skills", None),
     WithTop("personal_info", None), WithPi("name", None), WithPi("title", Num(5))}

InitRender ==
    /\ req \in [Threads -> {Entered(b) : b \in RenderBodies}]
    /\ environ = EnvUnset
    /\ world = WorldBase
    /\ InitRest

NextRender ==
    \E r \in Threads :
        \/ Normalize(r)
        \/ Filter(r)
        \/ Anonymize(r)
        \/ Build(r)
        \/ SaveBegin(r)
        \/ SaveEnd(r)
        \/ SaveFail(r)
        \/ SendFile(r)
        \/ Stream(r)

SpecRender == InitRender /\ [][NextRender]_vars

----------------------------------------------------------------------------
(* SpecJobs: uploads, their worker threads and concurrent job_status polls *)

InitJobs ==
    /\ jobs = [j \in {} |-> NoJob]
    /\ worker = [j \in {} |-> "none"]
    /\ poll = [p \in Pollers |-> Idle]
    /\ nextJob = 0
    /\ delivered = [j \in {} |-> 0]
    /\ req = [r \in Threads |-> Off]
    /\ outfile = NoFile
    /\ environ = EnvUnset
    /\ world = WorldBase
    /\ AuthIdle

NextJobs ==
    \/ ParseCv
    \/ \E id \in JobIds : StartWorker(id)
    \/ \E id \in JobIds : WorkerEnds(id)
    \/ \E p \in Pollers, id \in JobIds : PollGet(p, id)
    \/ \E p \in Pollers : PollAnswer(p)
    \/ \E p \in Pollers : PollAgain(p)

SpecJobs == InitJobs /\ [][NextJobs]_vars

\* thread.start() hands the worker to the scheduler, which runs it, and the
\* external calls of the worker return or raise: a worker that can take its
\* step eventually takes it
FairJobs ==
    \A id \in JobIds : WF_vars(StartWorker(id)) /\ WF_vars(WorkerEnds(id))

SpecJobsFair == InitJobs /\ [][NextJobs]_vars /\ FairJobs

----------------------------------------------------------------------------
(* SpecAuth: clients logging in and out and asking for protected pages *)

\* the passwords a login form posts; the empty one is the missing field
Passwords == {<<>>, <<"p", "w">>, <<" ", "p", "w", " ">>, <<"x">>}

\* the values of APP_PASSWORD in the environment: unset, blank, set
AuthEnvs ==
    {[EnvUnset EXCEPT !["APP_PASSWORD"] = v] :
        v \in {None, Str(<<" ">>), Str(<<"p", "w">>), Str(<<" ", "p", "w", " ">>)}}

InitAuth ==
    /\ environ \in AuthEnvs
    /\ world = WorldBase
    /\ req = [r \in Threads |-> Off]
    /\ InitRest

NextAuth ==
    \/ \E c \in Clients, e \in ProtectedEndpoints : Protected(c, e)
    \/ \E c \in Clients : Login(c, "GET", <<>>)
    \/ \E c \in Clients, pw \in Passwords : Login(c, "POST", pw)
    \/ \E c \in Clients : Logout(c)

SpecAuth == InitAuth /\ [][NextAuth]_vars

----------------------------------------------------------------------------
(* SpecCompose: build_cv_document applied to records given to it directly *)

\* the call of line 764 about to be made on rec and lang
Composing(rec, lang) ==
    [Off EXCEPT !.pc = "anonymized", !.body = rec, !.data = rec, !.anon = rec,
                !.lang = lang]

InitCompose ==
    /\ \/ \E rec \in ComposeRecords, l \in {Str(<<"fr">>), Str(<<"en">>)} :
             /\ req = [r \in Threads |-> IF r = 1 THEN Composing(rec, l) ELSE Off]
             /\ world = WorldBase
       \/ \E rec \in WorldRecords, l \in Langs, w \in Worlds :
             /\ req = [r \in Threads |-> IF r = 1 THEN Composing(rec, l) ELSE Off]
             /\ world = w
    /\ environ = EnvUnset
    /\ InitRest

NextCompose == \E r \in Threads : Build(r)

SpecCompose == InitCompose /\ [][NextCompose]_vars

----------------------------------------------------------------------------
(* SpecMalformed: generate_docx requests carrying structurally invalid records *)

InitMalformed ==
    /\ \E w \in {WorldBase, [WorldBase EXCEPT !.exists = FALSE]} :
          \/ \E k \in {"education", "experience", "skills"}, i \in 1..Len(NonLists) :
                Begin(WithTop(k, NonLists[i]), EnvUnset, w)
          \/ \E k \in {"education", "experience"}, x \in NonObjects :
                Begin(WithTop(k, List(<<x>>)), EnvUnset, w)
          \/ \E x \in NonObjects :
                Begin(WithTop("experience", List(<<BaseTop["experience"].v[1], x>>)),
                      EnvUnset, w)
    /\ InitRest

SpecMalformed == InitMalformed /\ [][Next]_vars

----------------------------------------------------------------------------
(* SpecRepeat: the same record rendered more than once *)

\* the records rendered twice
RepeatBodies ==
    {BaseBody, WithTop("language", Str(<<"fr">>)), WithTop("skills", List(<<>>))}

InitRepeat ==
    /\ \E b \in RepeatBodies : req = [r \in Threads |-> Entered(b)]
    /\ environ = EnvUnset
    /\ world \in Worlds
    /\ InitRest

\* lines 136-146: the completion endpoint is asked anew at every call of
\* group_skills, and between two calls its answer may have changed
Drift ==
    /\ \E a \in LlmAnswers : a # world.llm /\ world' = [world EXCEPT !.llm = a]
    /\ UNCHANGED <<environ, renderVars, jobVars, authVars>>

NextRepeat ==
    \/ \E r \in Threads :
          \/ Normalize(r)
          \/ Filter(r)
          \/ Anonymize(r)
          \/ Build(r)
    \/ Drift

SpecRepeat == InitRepeat /\ [][NextRepeat]_vars

----------------------------------------------------------------------------
(* Properties of the pipeline *)

\* the record ensure_schema made of the body of request r
Normalized(r) == ensure_schema(req[r].body).v

\* the body of r as a mapping, and its personal_info as a mapping
BodyMap(r) == IF req[r].body.t = "dict" THEN req[r].body.v ELSE EmptyDict
BodyPi(r) ==
    IF "personal_info" \in DOMAIN BodyMap(r) THEN BodyMap(r)["personal_info"].v
    ELSE EmptyDict

\* the body is absent or an object whose personal_info is absent or an object
Normalizable(r) ==
    /\ req[r].body.t \in {"null", "dict"}
    /\ "personal_info" \in DOMAIN BodyMap(r) => BodyMap(r)["personal_info"].t = "dict"

\* C3: normalization is idempotent: for every body, with any subset of the
\* top-level keys and of the personal_info keys missing, the record
\* ensure_schema returned is returned unchanged by ensure_schema.
C3_Idempotent ==
    \A r \in Threads :
        req[r].pc = "normalized" =>
            /\ req[r].data = Normalized(r)
            /\ ensure_schema(req[r].data) = Ok(req[r].data)

\* a normalized record whose body lacked keys at both levels
C3_Witness ==
    /\ req[1].pc = "normalized"
    /\ DOMAIN BodyMap(1) = {"personal_info", "skills"}
    /\ DOMAIN BodyPi(1) = {"name", "summary"}

\* C4: after ensure_schema all five top-level keys and all seven
\* personal_info keys are present; a missing one holds its default ('' ,
\* the placeholder image for photo_path, [] for the lists, 'fr' for
\* language), a present one its value from the body; no body with missing
\* fields makes ensure_schema raise.
C4_DefaultsComplete ==
    \A r \in Threads :
        /\ Normalizable(r) => ~(req[r].pc = "error" /\ req[r].at = "start")
        /\ req[r].pc = "normalized" =>
              LET d == req[r].data.v
                  pi == d["personal_info"].v
              IN /\ DOMAIN d = DOMAIN BodyMap(r) \cup TOP_KEYS
                 /\ DOMAIN pi = DOMAIN BodyPi(r) \cup PiKeySet
                 /\ \A k \in DOMAIN pi :
                       pi[k] = IF k \in DOMAIN BodyPi(r) THEN BodyPi(r)[k]
                               ELSE IF k = "photo_path"
                                    THEN Str(<<"static/uploads/ntrace_logo.jpeg">>)
                               ELSE Str(<<>>)
                 /\ \A k \in DOMAIN d \ {"personal_info"} :
                       d[k] = IF k \in DOMAIN BodyMap(r) THEN BodyMap(r)[k]
                              ELSE IF k = "language" THEN Str(<<"fr">>)
                              ELSE List(<<>>)

\* a normalized record whose body lacked language, lists and photo_path
C4_Witness ==
    /\ req[1].pc = "normalized"
    /\ DOMAIN BodyMap(1) = {"personal_info", "experience"}
    /\ DOMAIN BodyPi(1) = {"name", "title", "phone"}
    /\ req[1].data.v["personal_info"].v["photo_path"] = DEFAULT_PHOTO
    /\ req[1].lang = Str(<<"fr">>)

\* the fields of the body of r that are null
NullTop(r) == {k \in DOMAIN BodyMap(r) : BodyMap(r)[k].t = "null"}
NullPi(r) ==
    IF "personal_info" \in NullTop(r) THEN {}
    ELSE {k \in DOMAIN BodyPi(r) : BodyPi(r)[k].t = "null"}

\* every field of the body of r is missing, null or of its type
NullOrTyped(r) ==
    /\ req[r].body.t = "dict"
    /\ \A k \in DOMAIN BodyMap(r) \cap TOP_KEYS :
          BodyMap(r)[k].t \in
              {"null", IF k = "personal_info" THEN "dict"
                       ELSE IF k = "language" THEN "str" ELSE "list"}
    /\ "personal_info" \notin NullTop(r) =>
          \A k \in DOMAIN BodyPi(r) : BodyPi(r)[k].t \in {"null", "str"}

\* C5: a body whose fields are null rather than missing is served without
\* error, each null replaced by the default of the missing field.
C5_NullsDefaulted ==
    \A r \in Threads :
        NullOrTyped(r) =>
            /\ req[r].pc # "error"
            /\ req[r].pc \in {"normalized", "filtered", "anonymized", "built"} =>
                  /\ \A k \in NullTop(r) \ {"personal_info"} :
                        req[r].data.v[k] = IF k = "language" THEN Str(<<"fr">>)
                                           ELSE List(<<>>)
                  /\ \A k \in NullPi(r) \ {"name", "phone", "email"} :
                        req[r].data.v["personal_info"].v[k] =
                            IF k = "photo_path" THEN DEFAULT_PHOTO ELSE EmptyStr

\* None, or a str of whitespace only
BlankText(v) ==
    \/ v.t = "null"
    \/ v.t = "str" /\ \A i \in 1..Len(v.v) : v.v[i] \in Whitespace

\* entry e has neither of its title fields k1, k2
Untitled(e, k1, k2) == \A k \in {k1, k2} : k \notin DOMAIN e.v \/ BlankText(e.v[k])

\* the strictly increasing maps of 1..n into 1..m
Embeddings(n, m) ==
    {f \in [1..n -> 1..m] : \A i, j \in 1..n : i < j => f[i] < f[j]}

\* out is inp without exactly the items Drop holds of, the others kept in
\* their order, each as Same relates it
ExactlyFiltered(inp, out, Drop(_), Same(_, _)) ==
    \E f \in Embeddings(Len(out), Len(inp)) :
        /\ \A i \in 1..Len(out) : ~Drop(inp[f[i]]) /\ Same(inp[f[i]], out[i])
        /\ \A j \in 1..Len(inp) : (\A i \in 1..Len(out) : f[i] # j) => Drop(inp[j])

DetailsOf(e) == IF "details" \in DOMAIN e.v THEN e.v["details"].v ELSE <<>>

\* b is entry a with exactly its blank details removed
CleanedEntry(a, b) ==
    /\ DOMAIN b.v = DOMAIN a.v \cup {"details"}
    /\ \A k \in DOMAIN a.v \ {"details"} : b.v[k] = a.v[k]
    /\ ExactlyFiltered(DetailsOf(a), DetailsOf(b), BlankText, LAMBDA x, y : x = y)

\* post is pre after the filtering pass
FilteredFrom(pre, post) ==
    /\ ExactlyFiltered(pre.v["skills"].v, post.v["skills"].v, BlankText,
                       LAMBDA x, y : x = y)
    /\ ExactlyFiltered(pre.v["experience"].v, post.v["experience"].v,
                       LAMBDA e : Untitled(e, "role", "company"), CleanedEntry)
    /\ ExactlyFiltered(pre.v["education"].v, post.v["education"].v,
                       LAMBDA e : Untitled(e, "degree", "school"), CleanedEntry)

\* C6: the filtering pass removes exactly the blank skills, the entries
\* lacking both title fields and, in the retained entries, the blank
\* details; everything else is retained, in the record after the pass and
\* in the record build_cv_document receives.
C6_FilterExact ==
    \A r \in Threads :
        /\ req[r].pc = "filtered" => FilteredFrom(Normalized(r), req[r].data)
        /\ req[r].pc \in {"anonymized", "built"} => FilteredFrom(Normalized(r), req[r].anon)

\* a record reaching build_cv_document that lost a skill, an entry and a detail
C6_Witness ==
    /\ req[1].pc = "anonymized"
    /\ Len(req[1].anon.v["skills"].v) \in 1..(Len(Normalized(1).v["skills"].v) - 1)
    /\ Len(req[1].anon.v["experience"].v) \in 1..(Len(Normalized(1).v["experience"].v) - 1)
    /\ \E e \in {Normalized(1).v["experience"].v[i] :
                    i \in 1..Len(Normalized(1).v["experience"].v)} :
          /\ ~Untitled(e, "role", "company")
          /\ \E i \in 1..Len(DetailsOf(e)) : BlankText(DetailsOf(e)[i])

\* out keeps items of inp in their order, each as Same relates it
InOrder(inp, out, Same(_, _)) ==
    \E f \in Embeddings(Len(out), Len(inp)) :
        \A i \in 1..Len(out) : Same(inp[f[i]], out[i])

\* b is entry a with some of its details, in their order
SameEntryInOrder(a, b) ==
    /\ \A k \in DOMAIN a.v \ {"details"} : k \in DOMAIN b.v /\ b.v[k] = a.v[k]
    /\ InOrder(DetailsOf(a), DetailsOf(b), LAMBDA x, y : x = y)

\* the rows of the tables that follow a heading whose text is in texts
TablesUnder(doc, texts) ==
    SelectSeq([i \in 1..Len(doc) |->
                  IF i > 1 /\ doc[i].kind = "table" /\ doc[i - 1].kind = "heading"
                     /\ doc[i - 1].text.v[1] \in texts
                  THEN doc[i].rows ELSE <<>>],
              LAMBDA rows : rows # <<>>)

FieldOf(e, k) == IF k \in DOMAIN e.v THEN e.v[k] ELSE Str(<<>>)

\* the rows show the entries es one per row, in order
RowsShow(rows, es, ktitle) ==
    /\ Len(rows) = Len(es)
    /\ \A i \in 1..Len(es) :
          /\ rows[i].left[1] = FieldOf(es[i], "period")
          /\ rows[i].right = <<FieldOf(es[i], ktitle)>> \o DetailsOf(es[i])

\* C7: the retained skills, entries and details keep the order they had in
\* the body through normalization, filtering and anonymization, and row i
\* of the experience (education) table shows the i-th retained entry with
\* its details in order; no row is missing, moved or repeated.
C7_OrderPreserved ==
    \A r \in Threads :
        req[r].pc = "built" =>
            LET pre == Normalized(r).v
                a == req[r].anon.v
                ex == TablesUnder(req[r].doc, {"EXPÉRIENCES PROFESSIONNELLES",
                                               "PROFESSIONAL EXPERIENCE"})
                ed == TablesUnder(req[r].doc, {"FORMATIONS ET DIPLÔMES", "EDUCATION"})
            IN /\ InOrder(pre["skills"].v, a["skills"].v, LAMBDA x, y : x = y)
               /\ InOrder(pre["experience"].v, a["experience"].v, SameEntryInOrder)
               /\ InOrder(pre["education"].v, a["education"].v, SameEntryInOrder)
               /\ IF a["experience"].v = <<>> THEN ex = <<>>
                  ELSE Len(ex) = 1 /\ RowsShow(ex[1], a["experience"].v, "role")
               /\ IF a["education"].v = <<>> THEN ed = <<>>
                  ELSE Len(ed) = 1 /\ RowsShow(ed[1], a["education"].v, "degree")

\* a document whose experience table has two different rows, one with two details
C7_Witness ==
    /\ req[1].pc = "built"
    /\ Len(req[1].anon.v["experience"].v) = 2
    /\ req[1].anon.v["experience"].v[1] # req[1].anon.v["experience"].v[2]
    /\ \E i \in 1..2 : Len(DetailsOf(req[1].anon.v["experience"].v[i])) = 2
    /\ Len(req[1].anon.v["skills"].v) = 2

\* the positions of s where a whitespace-delimited part begins
PartStarts(s) ==
    {i \in 1..Len(s) : s[i] \notin Whitespace /\ (i = 1 \/ s[i - 1] \in Whitespace)}

Least(S) == CHOOSE x \in S : \A y \in S : x <= y
Greatest(S) == CHOOSE x \in S : \A y \in S : x >= y

\* C8: anonymize_data turns a name of two or more whitespace-separated
\* parts into '<F>. <L>.', F and L the uppercased first characters of the
\* first and of the last part, a name of one part into '<F>.', and leaves
\* an empty name empty.
C8_NameRule ==
    \A r \in Threads :
        req[r].pc = "anonymized" =>
            LET s == req[r].data.v["personal_info"].v["name"].v
                out == req[r].anon.v["personal_info"].v["name"]
                starts == PartStarts(s)
            IN /\ Cardinality(starts) >= 2 =>
                     out = Str(<<Upper(s[Least(starts)]), ".", " ",
                                 Upper(s[Greatest(starts)]), ".">>)
               /\ Cardinality(starts) = 1 => out = Str(<<Upper(s[Least(starts)]), ".">>)
               /\ s = <<>> => out = Str(<<>>)

\* an anonymized name of three parts whose second and last parts differ
C8_Witness ==
    /\ req[1].pc = "anonymized"
    /\ req[1].data.v["personal_info"].v["name"] = Str(<<"z", " ", "-", " ", "a">>)
    /\ req[1].anon.v["personal_info"].v["name"] = Str(<<"Z", ".", " ", "A", ".">>)

\* the value process configuration gives the setting name, or its default
Configured(name, default) ==
    IF environ[name].t = "null" THEN default ELSE environ[name]

\* C9: whatever the record's phone and email, the anonymized record has
\* the company phone and the company email that process configuration gives.
C9_CompanyContact ==
    \A r \in Threads :
        req[r].pc \in {"anonymized", "built"} =>
            LET pi == req[r].anon.v["personal_info"].v
            IN /\ pi["phone"] = Configured("COMPANY_PHONE", Str(<<"+33 6 62 54 45 33">>))
               /\ pi["email"] = Configured("COMPANY_EMAIL",
                                           Str(<<"servicecommercial@ntrace-consulting.com">>))

\* b differs from a in at most personal_info.name, .phone and .email
SameButContact(a, b) ==
    /\ DOMAIN b.v = DOMAIN a.v \cup {"personal_info"}
    /\ \A k \in DOMAIN a.v \ {"personal_info"} : b.v[k] = a.v[k]
    /\ LET pa == IF "personal_info" \in DOMAIN a.v THEN a.v["personal_info"].v
                 ELSE EmptyDict
           pb == b.v["personal_info"].v
       IN /\ DOMAIN pa \ {"name", "phone", "email"} = DOMAIN pb \ {"name", "phone", "email"}
          /\ \A k \in DOMAIN pa \ {"name", "phone", "email"} : pb[k] = pa[k]

\* C10: the call anonymize_data(r) leaves r as it was, and its result
\* differs from r in at most personal_info.name, phone and email.
C10_NonDestructive ==
    [][\A r \in Threads :
          req[r].pc = "filtered" /\ req'[r].pc = "anonymized" =>
              /\ req'[r].data = req[r].data
              /\ SameButContact(req[r].data, req'[r].anon)]_vars

\* an anonymized record that differs from the record it was made of, which
\* has entries, skills and details
C10_Witness ==
    /\ req[1].pc = "anonymized"
    /\ req[1].anon # req[1].data
    /\ req[1].anon.v["personal_info"].v["name"] # req[1].data.v["personal_info"].v["name"]
    /\ req[1].data.v["skills"].v # <<>>
    /\ req[1].data.v["experience"].v # <<>>
    /\ req[1].data.v["education"].v # <<>>
    /\ DetailsOf(req[1].data.v["education"].v[1]) # <<>>

----------------------------------------------------------------------------
(* Properties of concurrent renders and of the job store *)

\* C1: whatever the interleaving of concurrent generate_docx requests, the
\* response of each carries the complete document built from its own
\* record: never another request's document, never a partly written file.
C1_OwnDocument ==
    \A r \in Threads :
        req[r].pc = "done" =>
            /\ req[r].resp.status = 200
            /\ req[r].resp.body = FullFile(req[r].doc)

\* C2: a poll that observes its job done (or error) answers with the
\* result (or the error text) and removes the job from the store; every
\* poll of that id begun later answers 'Job not found'; a poll that
\* observes processing answers 'processing' and leaves the store unchanged.
C2_ReadThenDelete ==
    [][\A p \in Pollers :
          poll[p].pc = "got" /\ poll'[p].pc = "done" =>
              LET job == poll[p].job
                  id == poll[p].id
                  resp == poll'[p].resp
              IN /\ job.status \in {"done", "error"} =>
                       /\ resp = Answer(IF job.status = "done" THEN 200 ELSE 500,
                                        job.status, job)
                       /\ id \notin DOMAIN jobs'
                 /\ job.status = "processing" =>
                       /\ resp = Answer(200, "processing", NoJob)
                       /\ jobs' = jobs
                 /\ poll[p].late => resp = Answer(404, "Job not found", NoJob)]_vars

----------------------------------------------------------------------------
(* Properties of the composed document *)

\* the call of build_cv_document by thread r has returned its document
Built(r) == req[r].pc = "built"

\* the record and the personal_info mapping the call was given
Rec(r) == req[r].anon.v
RecPi(r) == req[r].anon.v["personal_info"].v

SkillsHeadings == {Str(<<"COMPETENCES PROFESSIONNELLES">>), Str(<<"PROFESSIONAL SKILLS">>)}
ExperienceHeadings == {Str(<<"EXPÉRIENCES PROFESSIONNELLES">>), Str(<<"PROFESSIONAL EXPERIENCE">>)}
EducationHeadings == {Str(<<"FORMATIONS ET DIPLÔMES">>), Str(<<"EDUCATION">>)}

\* the section a heading opens: 3 skills, 4 experience, 5 education
HeadingSection(b) ==
    CASE b.text \in SkillsHeadings -> 3
      [] b.text \in ExperienceHeadings -> 4
      [] b.text \in EducationHeadings -> 5
      [] OTHER -> 0

\* the section block i of doc belongs to: 1 header, 2 summary, 3 skills,
\* 4 experience, 5 education; 0 for a block that belongs to none
SectionOf(doc, i) ==
    CASE doc[i].kind = "header" -> 1
      [] doc[i].kind = "summary" -> 2
      [] doc[i].kind = "skill" -> 3
      [] doc[i].kind = "heading" -> HeadingSection(doc[i])
      [] doc[i].kind = "table" ->
            IF i > 1 /\ doc[i - 1].kind = "heading" /\ HeadingSection(doc[i - 1]) \in {4, 5}
            THEN HeadingSection(doc[i - 1]) ELSE 0
      [] OTHER -> 0

\* C11: in every document build_cv_document returns, the header comes first
\* and the emitted blocks follow in the order header, summary, skills,
\* experience, education, whichever optional blocks are present.
C11_SectionOrder ==
    \A r \in Threads :
        Built(r) =>
            LET doc == req[r].doc
            IN /\ doc # <<>>
               /\ \A i \in 1..Len(doc) :
                     /\ SectionOf(doc, i) \in 1..5
                     /\ SectionOf(doc, i) = 1 <=> i = 1
               /\ \A i, j \in 1..Len(doc) :
                     i < j => SectionOf(doc, i) <= SectionOf(doc, j)

\* a document with all five sections was composed
C11_Witness ==
    /\ Built(1)
    /\ {SectionOf(req[1].doc, i) : i \in 1..Len(req[1].doc)} = 1..5

\* the positions of doc holding a heading whose text is in texts
HeadingsAt(doc, texts) ==
    {i \in 1..Len(doc) : doc[i].kind = "heading" /\ doc[i].text \in texts}

\* the record lists a skill that is not blank
HasSkill(rec) ==
    /\ "skills" \in DOMAIN rec
    /\ \E i \in 1..Len(rec["skills"].v) : ~BlankText(rec["skills"].v[i])

\* C12: build_cv_document emits a skills heading if and only if the record
\* has a non-blank skill: none (and no skill paragraph) when it has no such
\* skill, exactly one when it has at least one.
C12_SkillsSuppression ==
    \A r \in Threads :
        Built(r) =>
            LET doc == req[r].doc
                n == Cardinality(HeadingsAt(doc, SkillsHeadings))
            IN IF HasSkill(Rec(r))
               THEN n = 1
               ELSE /\ n = 0
                    /\ \A i \in 1..Len(doc) : doc[i].kind # "skill"

\* a record whose skills are all blank was composed, without a skills heading
C12_Witness ==
    /\ Built(1)
    /\ "skills" \in DOMAIN Rec(1)
    /\ Len(Rec(1)["skills"].v) >= 2
    /\ ~HasSkill(Rec(1))
    /\ HeadingsAt(req[1].doc, SkillsHeadings) = {}

\* the positions of the entries of list key that have a title field
Retained(rec, key, k1, k2) ==
    IF key \notin DOMAIN rec THEN {}
    ELSE {i \in 1..Len(rec[key].v) : ~Untitled(rec[key].v[i], k1, k2)}

\* doc has the block of an entry list of n retained entries under a heading
\* of texts: nothing when n = 0, else one heading followed by a table of n rows
EntryBlockOf(doc, texts, n) ==
    LET at == HeadingsAt(doc, texts)
    IN IF n = 0 THEN at = {}
       ELSE /\ Cardinality(at) = 1
            /\ \A i \in at :
                  /\ i < Len(doc)
                  /\ doc[i + 1].kind = "table"
                  /\ Len(doc[i + 1].rows) = n

\* C13: the experience block and the education block are each emitted if
\* and only if the record has an entry with a title field, and the table of
\* an emitted block has exactly one row per retained entry, no other row.
C13_EntryBlocks ==
    \A r \in Threads :
        Built(r) =>
            LET doc == req[r].doc
                nx == Cardinality(Retained(Rec(r), "experience", "role", "company"))
                nd == Cardinality(Retained(Rec(r), "education", "degree", "school"))
            IN /\ EntryBlockOf(doc, ExperienceHeadings, nx)
               /\ EntryBlockOf(doc, EducationHeadings, nd)
               /\ Cardinality({i \in 1..Len(doc) : doc[i].kind = "table"})
                     = (IF nx > 0 THEN 1 ELSE 0) + (IF nd > 0 THEN 1 ELSE 0)

\* a record with two experience entries, one of them untitled, was composed
\* into a table of one row
C13_Witness ==
    /\ Built(1)
    /\ "experience" \in DOMAIN Rec(1)
    /\ Len(Rec(1)["experience"].v) = 2
    /\ Cardinality(Retained(Rec(1), "experience", "role", "company")) = 1
    /\ \E i \in 1..Len(req[1].doc) :
          req[1].doc[i].kind = "table" /\ Len(req[1].doc[i].rows) = 1

\* the length of s without its leading and trailing whitespace
TrimmedLen(s) ==
    LET ink == {i \in 1..Len(s) : s[i] \notin Whitespace}
    IN IF ink = {} THEN 0 ELSE Greatest(ink) - Least(ink) + 1

\* the positions of doc holding a summary paragraph
SummariesAt(doc) == {i \in 1..Len(doc) : doc[i].kind = "summary"}

\* C14: the summary paragraph is emitted if and only if the record has a
\* summary text whose length without leading and trailing whitespace is at
\* least 40; it is then the one paragraph after the header and shows the text.
C14_SummaryThreshold ==
    \A r \in Threads :
        Built(r) =>
            LET doc == req[r].doc
                pi == RecPi(r)
                real == /\ "summary" \in DOMAIN pi
                        /\ pi["summary"].t = "str"
                        /\ TrimmedLen(pi["summary"].v) >= 40
            IN IF real
               THEN /\ SummariesAt(doc) = {2}
                    /\ doc[2].text = pi["summary"]
               ELSE SummariesAt(doc) = {}

\* a summary of 39 characters between whitespace, 41 in all, was omitted
C14_Witness ==
    /\ Built(1)
    /\ "summary" \in DOMAIN RecPi(1)
    /\ Len(RecPi(1)["summary"].v) = 41
    /\ TrimmedLen(RecPi(1)["summary"].v) = 39
    /\ SummariesAt(req[1].doc) = {}

----------------------------------------------------------------------------
(* Properties of the responses of generate_docx *)

\* the steps of generate_docx an exception can come from, by the position the
\* request had reached
RaisingSteps == {"start", "normalized", "filtered", "anonymized", "saving"}

\* C15: whenever a step of generate_docx raises (normalizing, filtering,
\* anonymizing, composing or saving), the response is an error message with
\* a failure status and carries no document: no partly written file and no
\* file left by an earlier request.
C15_FailedRenderNoFile ==
    \A r \in Threads :
        req[r].pc = "error" =>
            /\ req[r].at \in RaisingSteps
            /\ req[r].resp.status = 500
            /\ req[r].resp.error # ""
            /\ req[r].resp.body = NoFile
            /\ req[r].resp.filename = <<>>

\* a save failed while the shared path held a document or part of one
C15_Witness ==
    /\ req[1].pc = "error"
    /\ req[1].at = "saving"
    /\ outfile # NoFile
    /\ req[2].pc = "error"
    /\ req[2].at \in {"start", "normalized", "filtered", "anonymized"}

\* v is a list
IsList(v) == v.t = "list"

\* body gives education, experience or skills as a non-list, or gives
\* education or experience an element that is not an object
Malformed(body) ==
    /\ body.t = "dict"
    /\ \/ \E k \in {"education", "experience", "skills"} :
             k \in DOMAIN body.v /\ ~IsList(body.v[k])
       \/ \E k \in {"education", "experience"} :
             /\ k \in DOMAIN body.v
             /\ IsList(body.v[k])
             /\ \E i \in 1..Len(body.v[k].v) : body.v[k].v[i].t # "dict"

\* C16: whenever education, experience or skills is given as a non-list, or
\* education/experience holds an element that is not an object, generate_docx
\* reports an error and composes no document of the malformed record.
C16_MalformedSurfaced ==
    \A r \in Threads :
        Malformed(req[r].body) => req[r].pc # "built"

\* the record of thread r names an image file that is missing or that
\* cannot be loaded as an image
BadAsset(r) ==
    /\ req[r].pc \in {"built", "error"}
    /\ "personal_info" \in DOMAIN Rec(r)
    /\ "photo_path" \in DOMAIN RecPi(r)
    /\ RecPi(r)["photo_path"].t = "str"
    /\ RecPi(r)["photo_path"].v # <<>>
    /\ ~(world.exists /\ world.loads)

\* the sections doc has
SectionsOf(doc) == {SectionOf(doc, i) : i \in 1..Len(doc)}

\* the sections a record calls for
SectionsFor(rec) ==
    {1}
    \cup (IF /\ "summary" \in DOMAIN rec["personal_info"].v
             /\ rec["personal_info"].v["summary"].t = "str"
             /\ TrimmedLen(rec["personal_info"].v["summary"].v) >= 40
          THEN {2} ELSE {})
    \cup (IF HasSkill(rec) THEN {3} ELSE {})
    \cup (IF Retained(rec, "experience", "role", "company") # {} THEN {4} ELSE {})
    \cup (IF Retained(rec, "education", "degree", "school") # {} THEN {5} ELSE {})

\* C17: for every record whose photo_path names a file that does not exist
\* or cannot be loaded, build_cv_document raises no error and returns a
\* document with the header (name, title, contact) and every section the
\* record calls for, only the image missing.
C17_AssetTolerance ==
    \A r \in Threads :
        BadAsset(r) =>
            /\ Built(r)
            /\ LET doc == req[r].doc
               IN /\ doc[1].kind = "header"
                  /\ ~doc[1].picture
                  /\ doc[1].info = <<"name", "title", "contact">>
                  /\ doc[1].name = RecPi(r)["name"]
                  /\ Len(doc[1].title.v) = Len(RecPi(r)["title"].v)
                  /\ doc[1].contact.v # <<>>
                  /\ SectionsOf(doc) = SectionsFor(Rec(r))

\* a record with every section was composed while its image file was missing
C17_Witness ==
    /\ BadAsset(1)
    /\ ~world.exists
    /\ Built(1)
    /\ SectionsOf(req[1].doc) = 1..5

\* C18: two calls of build_cv_document with equal record and equal lang
\* return documents with the same blocks, paragraphs and text: the document
\* depends on nothing but the record, lang and the logo image.
C18_Deterministic ==
    \A r, q \in Threads :
        /\ Built(r)
        /\ Built(q)
        /\ req[r].anon = req[q].anon
        /\ req[r].lang = req[q].lang
        => req[r].doc = req[q].doc

\* the positions of name n holding an alphanumeric, a space or an underscore
SafeAt(n) == {i \in 1..Len(n) : IsAlnum(n[i]) \/ n[i] \in {" ", "_"}}

\* those of them from the first to the last that holds no space
CoreAt(n) ==
    LET ink == {i \in SafeAt(n) : n[i] # " "}
    IN IF ink = {} THEN {}
       ELSE {i \in SafeAt(n) : Least(ink) <= i /\ i <= Greatest(ink)}

\* the characters at these positions in order, each space as an underscore
DerivedName(n) ==
    LET core == CoreAt(n)
        nth(j) == CHOOSE i \in core : Cardinality({k \in core : k <= i}) = j
    IN [j \in 1..Cardinality(core) |-> IF n[nth(j)] = " " THEN "_" ELSE n[nth(j)]]

\* C19: the download filename is 'CV_' + d + '.docx', d being the name with
\* every character other than alphanumerics, spaces and underscores removed,
\* surrounding whitespace trimmed and each remaining space replaced by an
\* underscore; it is 'generated_cv.docx' when d is empty. The name 'O. S.'
\* gives 'CV_O_S.docx'.
C19_Filename ==
    \A r \in Threads :
        Built(r) /\ "name" \in DOMAIN RecPi(r) /\ RecPi(r)["name"].t = "str" =>
            LET n == RecPi(r)["name"].v
                d == DerivedName(n)
            IN /\ req[r].filename =
                     IF d = <<>> THEN <<"generated_cv.docx">>
                     ELSE <<"C", "V", "_">> \o d \o <<".docx">>
               /\ n = <<"O", ".", " ", "S", ".">> =>
                     req[r].filename = <<"C", "V", "_", "O", "_", "S", ".docx">>

\* the record named 'O. S.' was composed
C19_Witness ==
    /\ Built(1)
    /\ RecPi(1)["name"] = Str(<<"O", ".", " ", "S", ".">>)
    /\ req[1].filename = <<"C", "V", "_", "O", "_", "S", ".docx">>

\* the record has a value for key k of personal_info that is not blank
PresentField(pi, k) == k \in DOMAIN pi /\ ~BlankText(pi[k])

\* the lines of the contact paragraph: phone first, each with its label
ContactLines(pi) ==
    (IF PresentField(pi, "phone") THEN << <<"Tél : ">> \o pi["phone"].v >> ELSE <<>>)
    \o (IF PresentField(pi, "email") THEN << <<"Email : ">> \o pi["email"].v >> ELSE <<>>)

\* C20: the contact line of the header has one line for each of phone and
\* email that is present and not blank, phone first, each with its label;
\* when both are blank the header has no contact paragraph at all.
C20_ContactLine ==
    \A r \in Threads :
        Built(r) =>
            LET h == req[r].doc[1]
                lines == ContactLines(RecPi(r))
                shown == \E i \in 1..Len(h.info) : h.info[i] = "contact"
            IN IF lines = <<>> THEN ~shown
               ELSE /\ shown
                    /\ h.contact.v = IF Len(lines) = 1 THEN lines[1]
                                     ELSE lines[1] \o <<"\n">> \o lines[2]

----------------------------------------------------------------------------
(* Properties of the locale and of the skill grouping *)

FrenchHeadings ==
    {Str(<<"COMPETENCES PROFESSIONNELLES">>), Str(<<"EXPÉRIENCES PROFESSIONNELLES">>),
     Str(<<"FORMATIONS ET DIPLÔMES">>)}

EnglishHeadings ==
    {Str(<<"PROFESSIONAL SKILLS">>), Str(<<"PROFESSIONAL EXPERIENCE">>), Str(<<"EDUCATION">>)}

\* the texts of the section headings of doc
HeadingTexts(doc) == {doc[i].text : i \in {j \in 1..Len(doc) : doc[j].kind = "heading"}}

\* the request body of thread r gives no language
NoLanguage(r) == req[r].body.t # "dict" \/ "language" \notin DOMAIN req[r].body.v

\* the request body of thread r gives language l
LanguageIs(r, l) ==
    /\ req[r].body.t = "dict"
    /\ "language" \in DOMAIN req[r].body.v
    /\ req[r].body.v["language"] = Str(<<l>>)

\* C21: all section headings of one document are in one locale: the French
\* set for language 'fr', the English set for language 'en', and the French
\* set for a record that gives no language.
C21_LocaleHeadings ==
    \A r \in Threads :
        Built(r) =>
            LET heads == HeadingTexts(req[r].doc)
            IN /\ heads \subseteq FrenchHeadings \/ heads \subseteq EnglishHeadings
               /\ LanguageIs(r, "fr") \/ NoLanguage(r) => heads \subseteq FrenchHeadings
               /\ LanguageIs(r, "en") => heads \subseteq EnglishHeadings

\* a record without language was rendered with the three French headings
C21_Witness ==
    /\ Built(1)
    /\ NoLanguage(1)
    /\ HeadingTexts(req[1].doc) = FrenchHeadings

\* the skill paragraphs of doc in order, each its category and its text
SkillParas(doc) ==
    LET at == SelectSeq([i \in 1..Len(doc) |-> i], LAMBDA i : doc[i].kind = "skill")
    IN [j \in 1..Len(at) |-> <<doc[at[j]].category, doc[at[j]].text>>]

\* the skills of the record that are not blank, in their order
ListedSkills(rec) == SelectSeq(rec["skills"].v, LAMBDA x : ~BlankText(x))

\* the answer of the grouping call is a non-empty mapping of categories to strings
UsableGrouping ==
    /\ world.llm.kind = "dict"
    /\ world.llm.items # <<>>
    /\ \A i \in 1..Len(world.llm.items) : world.llm.items[i][2].t = "str"

GenericLabels == {Str(<<"Compétences">>), Str(<<"Skills">>)}

\* C22: when the grouping call gives no usable grouping (it fails, or its
\* answer is not a non-empty mapping of categories to strings) the skills
\* are rendered as one paragraph under a generic label, its text the skills
\* joined by ', ' in their order; otherwise there is exactly one paragraph
\* per category of the mapping.
C22_GroupingFallback ==
    \A r \in Threads :
        Built(r) /\ HasSkill(Rec(r)) =>
            LET paras == SkillParas(req[r].doc)
            IN IF UsableGrouping
               THEN paras = world.llm.items
               ELSE /\ Len(paras) = 1
                    /\ paras[1][1] \in GenericLabels
                    /\ paras[1][2] = Str(JoinComma(ListedSkills(Rec(r)), 1))

----------------------------------------------------------------------------
(* Properties of the job store *)

JobStatuses == {"processing", "done", "error"}

\* every stored job has one of the three statuses, is about its own id, and
\* is processing as long as its worker thread has not written its outcome
StoreOk ==
    /\ \A id \in DOMAIN jobs :
          /\ jobs[id].status \in JobStatuses
          /\ jobs[id].about = id
          /\ id \in DOMAIN worker
          /\ worker[id] \in {"created", "running"} => jobs[id].status = "processing"
    /\ \A id \in DOMAIN worker :
          worker[id] \in {"created", "running"} => id \in DOMAIN jobs

\* C23: parse_cv enters a job as processing before its worker starts; a
\* stored status is always processing, done or error; the only changes of a
\* stored job are processing to done and processing to error, written once
\* by the job's own worker; a done or error job changes no more until it is
\* deleted, and a deleted job does not come back.
C23_JobLifecycle ==
    [][/\ StoreOk'
       /\ \A id \in DOMAIN jobs' \ DOMAIN jobs :
             /\ id \notin DOMAIN worker
             /\ jobs'[id].status = "processing"
             /\ worker'[id] = "created"
       /\ \A id \in DOMAIN jobs \cap DOMAIN jobs' :
             jobs'[id] # jobs[id] =>
                 /\ jobs[id].status = "processing"
                 /\ jobs'[id].status \in {"done", "error"}
                 /\ worker[id] = "running"
                 /\ worker'[id] = "finished"
       /\ \A id \in DOMAIN jobs \ DOMAIN jobs' :
             jobs[id].status \in {"done", "error"}]_vars

\* one job ended done and another ended in error, both still stored
C23_Witness ==
    /\ DOMAIN jobs = {1, 2}
    /\ jobs[1].status = "done"
    /\ jobs[2].status = "error"
    /\ worker[1] = "finished"
    /\ worker[2] = "finished"

\* C24: under every interleaving of concurrent polls of a finished job, its
\* result (or error text) is returned to at most one poll, and every other
\* poll of that id answers 'Job not found' or 'processing': none fails with
\* an unhandled error.
C24_ConcurrentPolls ==
    /\ \A id \in DOMAIN delivered : delivered[id] <= 1
    /\ \A p \in Pollers :
          poll[p].pc = "done" =>
              poll[p].resp.kind \in {"done", "error", "Job not found", "processing"}

\* job id is in the store with status processing
Processing(id) == id \in DOMAIN jobs /\ jobs[id].status = "processing"

\* a stored outcome has the status its cause calls for: error when text
\* extraction, the extraction call or the post-processing raised, done when
\* they returned, with the fallback analysis when the analysis call raised
OutcomeOk ==
    \A id \in DOMAIN jobs :
        /\ jobs[id].note \in {"extract_text", "extraction", "postprocess"}
              <=> jobs[id].status = "error"
        /\ jobs[id].note \in {"analysis", "fallback"} <=> jobs[id].status = "done"

\* C25: every job started by parse_cv eventually leaves processing, the
\* external calls returning or raising: it ends done when text extraction
\* and the extraction call succeed (with the fallback analysis when the
\* analysis call fails) and error when one of them or the post-processing
\* raises.
C25_JobTerminates ==
    /\ \A id \in JobIds : Processing(id) ~> ~Processing(id)
    /\ []OutcomeOk

\* a job ended done with the fallback analysis attached
C25_Witness ==
    /\ 1 \in DOMAIN jobs
    /\ jobs[1] = Job("done", 1, "fallback")
    /\ worker[1] = "finished"

----------------------------------------------------------------------------
(* Properties of the password protection *)

\* a step answers a request of client c
Answers(c) == served' # served /\ served'.client = c

\* C26: with an application password configured, a request to a protected
\* endpoint runs its handler only when the session is authenticated and is
\* redirected to login otherwise; a session becomes authenticated only by
\* a login POST whose password is the configured one; after logout the
\* session is unauthenticated.
C26_AccessControl ==
    [][Truthy(APP_PASSWORD) =>
        /\ \A c \in Clients :
              Answers(c) /\ served'.endpoint \in ProtectedEndpoints =>
                  /\ served'.resp \in {"handler", "redirect login"}
                  /\ served'.resp = "handler" <=> Authenticated(c)
                  /\ Authenticated(c)' <=> Authenticated(c)
        /\ \A c \in Clients :
              ~Authenticated(c) /\ Authenticated(c)' =>
                  /\ served'.client = c
                  /\ served'.endpoint = "login"
                  /\ served'.method = "POST"
                  /\ Str(served'.password) = APP_PASSWORD
        /\ \A c \in Clients :
              Authenticated(c) /\ ~Authenticated(c)' =>
                  served'.client = c /\ served'.endpoint = "logout"
        /\ \A c \in Clients :
              Answers(c) /\ served'.endpoint = "logout" => ~Authenticated(c)'
    ]_vars

\* with a padded password configured, client 1 is logged in and served a
\* protected handler while client 2, not logged in, was never let through
C26_Witness ==
    /\ environ["APP_PASSWORD"] = Str(<<" ", "p", "w", " ">>)
    /\ Authenticated(1)
    /\ ~Authenticated(2)
    /\ served = Response(1, "parse-cv", "GET", <<>>, "handler", "")

====
